---- MODULE Spec2Model ----
(***************************************************************************)
(* The walrus write-ahead log: segments of length-framed records, the log  *)
(* manager (Append, WriteBatch, Get, GetRange, Truncate, Close), the       *)
(* transaction table and recovery at open.                                 *)
(*                                                                         *)
(* A segment file is a sequence of cells (bytes).  A frame is              *)
(* EntryLengthSize length cells followed by the encoded record.  An I/O    *)
(* failure is an input of the operation it hits (the fault argument).      *)
(***************************************************************************)
EXTENDS Integers, Sequences, FiniteSets, TLC

\* ---------------------------------------------------------------- bounds
MaxIndex == 3        \* no write is started that would pass this record index
MaxData == 2         \* payloads are 1..MaxData; an encoded record is that long
MaxBatch == 2        \* entries per WriteBatch call
MaxTx == 2           \* transactions ever begun
MaxTime == 3         \* the clock stops here
MaxRecoveries == 1   \* crashes / reopens of the directory
MaxFaults == 2       \* I/O failures injected
MaxTruncates == 1    \* Truncate calls on the open log
MaxThreads == 3      \* threads that call the log at the same time
MaxCalls == 1        \* calls each thread makes

\* ---------------------------------------------------------- configuration
segmentSize == 6     \* Config.segmentSize
maxSegments == 2     \* Config.maxSegments
MaxEntries == 2      \* Config.MaxEntries
DefaultTimeout == 1  \* Config.DefaultTimeout
syncAfterWrite == TRUE

EntryLengthSize == 4

NoTx == 0
ZeroTime == 0
StartTime0 == 1

\* ------------------------------------------------------------- sequences
Take(s, n) == SubSeq(s, 1, n)

Last(s) == s[Len(s)]

SeqsUpTo(S, n) == UNION {[1..k -> S] : k \in 0..n}

Range(s) == {s[i] : i \in DOMAIN s}

\* --------------------------------------------------------------- records
\* type Entry: Index, Data, Timestamp, TransactionID (Term and Checksum are
\* carried unchanged and left out).
Entry(i, d, t, x) == [Index |-> i, Data |-> d, Timestamp |-> t, TransactionID |-> x]

\* what a caller passes in: Index unset, no transaction id
\* (odd payloads come with a Timestamp, even ones with the zero Timestamp)
EntryInputs ==
    {Entry(0, d, IF d % 2 = 1 THEN StartTime0 ELSE ZeroTime, NoTx) : d \in 1..MaxData}

\* ---------------------------------------------------------------- encoder
LCell(k, v) == [t |-> "L", k |-> k, n |-> v, e |-> Entry(0, 0, 0, 0)]
ZCell == [t |-> "Z", k |-> 0, n |-> 0, e |-> Entry(0, 0, 0, 0)]
PCell(k, n, e) == [t |-> "P", k |-> k, n |-> n, e |-> e]

\* Encoder.Encode: the record as PayloadLen cells
PayloadLen(e) == e.Data
Encode(e) == [k \in 1..PayloadLen(e) |-> PCell(k, PayloadLen(e), e)]

\* Encoder.Decode: fails on anything that is not one whole encoded record
DecodeOk(data) ==
    /\ Len(data) >= 1
    /\ \A k \in 1..Len(data) :
          /\ data[k].t = "P"
          /\ data[k].k = k
          /\ data[k].n = Len(data)
          /\ data[k].e = data[1].e
    /\ PayloadLen(data[1].e) = Len(data)
Decode(data) == data[1].e

\* binary.LittleEndian.PutUint32 / Uint32 on the length prefix
PutUint32(n) == [k \in 1..EntryLengthSize |-> LCell(k, IF k = 1 THEN n ELSE 0)]
\* (a payload cell read as a length byte counts as PayloadByte)
PayloadByte == 127
ByteVal(c) == IF c.t = "P" THEN PayloadByte ELSE c.n
RECURSIVE Uint32(_)
Uint32(buf) == IF buf = <<>> THEN 0 ELSE ByteVal(Head(buf)) + 256 * Uint32(Tail(buf))

\* the frame Segment.Write puts on the file for data
Frame(data) == PutUint32(Len(data)) \o data

\* ---------------------------------------------------------------- segment
\* type Segment (the file handle is open/closed; the bytes live in files)
NewSegment(index) ==
    [index |-> index, open |-> TRUE, firstEntry |-> 0, lastEntry |-> 0,
     entryOffsets |-> <<>>]

\* Segment.Size: the size of the file behind an open handle
SizeOk(s) == s.open
Size(s, f) == IF s.open THEN Len(f) ELSE 0

\* Segment.Write: the length prefix, then the data, each by a file.Write that
\* may fail after cut cells of the frame are on the file (cut = -1: no failure)
WriteOk(s, data, cut) == s.open /\ (cut < 0 \/ cut >= Len(Frame(data)))
Write(s, f, data, cut) ==
    IF ~s.open THEN f
    ELSE IF cut < 0 \/ cut >= Len(Frame(data)) THEN f \o Frame(data)
    ELSE f \o Take(Frame(data), cut)

\* Segment.TrackEntry
TrackEntry(s, index, offset) ==
    [s EXCEPT !.firstEntry = IF s.firstEntry = 0 THEN index ELSE s.firstEntry,
              !.lastEntry = index,
              !.entryOffsets = Append(s.entryOffsets, offset)]

\* os.File.Truncate: cuts the file, or extends it with zero bytes
FileTruncate(s, f, offset) ==
    IF ~s.open THEN f
    ELSE IF offset <= Len(f) THEN Take(f, offset)
    ELSE f \o [k \in 1..(offset - Len(f)) |-> ZCell]

\* Segment.ReadAt: os.File.ReadAt gives io.EOF whenever it reads fewer cells
\* than asked for
ReadAt(s, f, offset) ==
    IF ~s.open THEN [err |-> "closed", data |-> <<>>, next |-> 0]
    ELSE IF offset + EntryLengthSize > Len(f)
    THEN [err |-> "EOF", data |-> <<>>, next |-> 0]
    ELSE LET entryLen == Uint32(SubSeq(f, offset + 1, offset + EntryLengthSize))
         IN IF offset + EntryLengthSize + entryLen > Len(f)
            THEN [err |-> "EOF", data |-> <<>>, next |-> 0]
            ELSE [err |-> "nil",
                  data |-> SubSeq(f, offset + EntryLengthSize + 1,
                                  offset + EntryLengthSize + entryLen),
                  next |-> offset + EntryLengthSize + entryLen]

\* Segment.ContainsIndex
ContainsIndex(s, index) == s.firstEntry <= index /\ index <= s.lastEntry

\* Segment.GetEntryByIndex: the frame at the tracked offset of index
GetEntryByIndex(s, f, index) ==
    LET localIdx == index - s.firstEntry
    IN IF localIdx < 0 \/ localIdx >= Len(s.entryOffsets)
       THEN [err |-> "notfound", data |-> <<>>, next |-> 0]
       ELSE ReadAt(s, f, s.entryOffsets[localIdx + 1])

\* -------------------------------------------------------------------- state
VARIABLES
    state,            \* WAL.state: "Open", "Closed"; "Crashed": the process died
    status,           \* WAL.status: "OK", "Corrupted"
    cusror,           \* WAL.cusror: [FirstIndex, LastIndex]
    segments,         \* WAL.segments: the segment indexes, in list order
    currentSegment,   \* WAL.currentSegment: a segment index, or NilSegment
    segs,             \* the Segment objects, by segment index
    files,            \* the segment files of the directory, by segment index
    transactions,     \* WAL.transactions: id -> Transaction
    commits,          \* CommitTransaction calls between their locked sections
    nextTx,           \* the next id generateTransactionID gives
    now,              \* the clock
    recoveries,       \* reopens so far
    closing,          \* Close holds the log lock, between its two steps
    faults,           \* I/O failures so far
    truncs,           \* Truncate calls so far
    lastAppended,     \* history: the index the last successful Append returned
    elapsed,          \* history: the transactions that timed out while Pending
    swept,            \* history: the transactions the sweep removed
    atClose,          \* history: the cursor and the records Get gave when Close began
    calls,            \* the calls in progress, by thread: the operation, the lock steps done
    sweeper,          \* the goroutine of StartTransactionCleanup: where it is
    ret               \* the last call that returned, and what it returned

vars == <<state, status, cusror, segments, currentSegment, segs, files,
          transactions, commits, nextTx, now, recoveries, closing, faults, truncs,
          lastAppended, elapsed, swept, atClose, calls, sweeper, ret>>

NilSegment == 0

\* StartCursor
StartCursor == [FirstIndex |-> 0, LastIndex |-> 0]

\* the fields of the WAL that Append, WriteBatch, Truncate and recovery work on
Log == [cusror |-> cusror, segments |-> segments, currentSegment |-> currentSegment,
        segs |-> segs, files |-> files]

Cur(w) == w.segs[w.currentSegment]
CurFile(w) == IF w.currentSegment \in DOMAIN w.files THEN w.files[w.currentSegment] ELSE <<>>

SetCur(w, s, f) ==
    [w EXCEPT !.segs = [w.segs EXCEPT ![w.currentSegment] = s],
              !.files = IF w.currentSegment \in DOMAIN w.files
                        THEN [w.files EXCEPT ![w.currentSegment] = f]
                        ELSE w.files]

\* f with x mapped to v, x new or not
Put(f, x, v) == [y \in DOMAIN f \cup {x} |-> IF y = x THEN v ELSE f[y]]
Drop(f, X) == [y \in DOMAIN f \ X |-> f[y]]

Max(a, b) == IF a >= b THEN a ELSE b

\* seeded fault: the cursor left on the number of records of the write
AdvanceCursorCount(c, first, last) ==
    [FirstIndex |-> IF c.FirstIndex = 0 THEN first ELSE c.FirstIndex,
     LastIndex |-> last - first + 1]

\* seeded fault: the cursor left on the first record of the write
AdvanceCursorFirst(c, first, last) ==
    [FirstIndex |-> IF c.FirstIndex = 0 THEN first ELSE c.FirstIndex,
     LastIndex |-> first]

\* the cursor after a write of records first..last (Append, WriteBatch)
AdvanceCursor(c, first, last) ==
    [FirstIndex |-> IF c.FirstIndex = 0 THEN first ELSE c.FirstIndex,
     LastIndex |-> last]

\* seeded fault: the last index given again
NextIndexSame(c) == IF c.LastIndex = 0 THEN 1 ELSE c.LastIndex

\* the index Append gives its entry
NextIndex(c) == c.LastIndex + 1

\* what a call gives back with the log it leaves
Res(w, err, val) == [w |-> w, err |-> err, val |-> val]

\* faults a caller's I/O can hit: none; the rotation (its sync or the file
\* creation); the write of frame `at`, after `cut` cells of it; the final sync
Fault(kind, at, cut) == [kind |-> kind, at |-> at, cut |-> cut]
NoFault == Fault("none", 0, 0)
AppendFaults(e) ==
    {NoFault, Fault("rotate", 0, 0), Fault("sync", 0, 0)}
        \cup {Fault("write", 1, c) : c \in 0..(EntryLengthSize + PayloadLen(e) - 1)}

\* createSegment: O_CREATE | O_APPEND, a new empty file unless one is there
createSegment(w, index) ==
    [w EXCEPT !.segs = Put(w.segs, index, NewSegment(index)),
              !.files = IF index \in DOMAIN w.files THEN w.files
                        ELSE Put(w.files, index, <<>>)]

\* seeded fault: the retention that removes the newest segments
ensureSegmentCountNewest(w) ==
    IF Len(w.segments) <= maxSegments THEN w
    ELSE LET gone == {w.segments[i] : i \in (maxSegments + 1)..Len(w.segments)}
         IN [w EXCEPT !.segs = [x \in DOMAIN w.segs |->
                                   IF x \in gone THEN [w.segs[x] EXCEPT !.open = FALSE]
                                   ELSE w.segs[x]],
                      !.files = Drop(w.files, gone),
                      !.segments = SubSeq(w.segments, 1, maxSegments)]

\* WAL.ensureSegmentCount: close and remove the oldest segments over maxSegments
ensureSegmentCount(w) ==
    IF Len(w.segments) <= maxSegments THEN w
    ELSE LET toRemove == Len(w.segments) - maxSegments
             gone == {w.segments[i] : i \in 1..toRemove}
         IN [w EXCEPT !.segs = [x \in DOMAIN w.segs |->
                                   IF x \in gone THEN [w.segs[x] EXCEPT !.open = FALSE]
                                   ELSE w.segs[x]],
                      !.files = Drop(w.files, gone),
                      !.segments = SubSeq(w.segments, toRemove + 1, Len(w.segments))]

\* WAL.cleanupOldSegments: the retention above, and firstIndex moved past what
\* was evicted
cleanupOldSegments(w) ==
    LET toRemove == Len(w.segments) - maxSegments
        evicted == {w.segments[i] : i \in 1..toRemove}
        lasts == {w.segs[x].lastEntry : x \in {y \in evicted : w.segs[y].firstEntry # 0}}
        past == IF lasts = {} THEN 0
                ELSE 1 + CHOOSE m \in lasts : \A l \in lasts : l <= m
        w2 == ensureSegmentCount(w)
    IN [w2 EXCEPT !.cusror.FirstIndex = Max(w.cusror.FirstIndex, past)]

\* WAL.rotateSegment, after its sync of the current segment
rotateSegment(w) ==
    LET newIndex == IF Len(w.segments) > 0 THEN Last(w.segments) + 1 ELSE 1
        w1 == createSegment(w, newIndex)
        w2 == [w1 EXCEPT !.segments = Append(w.segments, newIndex),
                         !.currentSegment = newIndex]
    IN IF Len(w2.segments) > maxSegments THEN cleanupOldSegments(w2) ELSE w2

\* WAL.ensureSegment: the first segment of a log that has none
ensureSegment(w) == IF w.currentSegment = NilSegment THEN rotateSegment(w) ELSE w

\* WAL.Append after TrackEntry: the sync, then the cursor
AppendTracked(w, e, fault) ==
    IF syncAfterWrite /\ fault.kind = "sync" THEN Res(w, "IOFailure", <<>>)
    ELSE Res([w EXCEPT !.cusror = AdvanceCursor(w.cusror, e.Index, e.Index)],
             "nil", <<e.Index>>)

\* WAL.Append on its current segment: Size, Write, TrackEntry
AppendEntry(w, e, cut, fault) ==
    IF ~WriteOk(Cur(w), Encode(e), cut)
    THEN Res(SetCur(w, Cur(w), Write(Cur(w), CurFile(w), Encode(e), cut)), "IOFailure", <<>>)
    ELSE AppendTracked(SetCur(w, TrackEntry(Cur(w), e.Index, Size(Cur(w), CurFile(w))),
                              Write(Cur(w), CurFile(w), Encode(e), cut)),
                       e, fault)

\* WAL.Append: entry.Index = LastIndex + 1
AppendOn(w, entry, fault) ==
    AppendEntry(w, [entry EXCEPT !.Index = NextIndex(w.cusror)],
                IF fault.kind = "write" THEN fault.cut ELSE -1, fault)

\* WAL.Append: the rotation of a current segment that is full
AppendChecked(w, entry, fault) ==
    IF ~SizeOk(Cur(w)) THEN Res(w, "IOFailure", <<>>)
    ELSE IF Size(Cur(w), CurFile(w)) >= segmentSize
    THEN IF fault.kind = "rotate" THEN Res(w, "IOFailure", <<>>)
         ELSE AppendOn(rotateSegment(w), entry, fault)
    ELSE AppendOn(w, entry, fault)

\* WAL.Append, from the check of the current segment on (the log is open)
AppendLog(w0, entry, fault) == AppendChecked(ensureSegment(w0), entry, fault)

\* the entries of a batch as WriteBatch stamps them: indices from LastIndex + 1,
\* time.Now() for a zero Timestamp
Stamp(entries, lastIndex, t) ==
    [i \in 1..Len(entries) |->
        [entries[i] EXCEPT !.Index = lastIndex + i,
                           !.Timestamp = IF entries[i].Timestamp = ZeroTime THEN t
                                         ELSE entries[i].Timestamp]]

BatchFaults(entries) ==
    IF entries = <<>> THEN {NoFault} ELSE
    {NoFault, Fault("sync", 0, 0)}
        \cup UNION {{Fault("write", k, c) :
                        c \in 0..(EntryLengthSize + PayloadLen(entries[k]) - 1)} :
                    k \in 1..Len(entries)}

\* one round of the write loop of WriteBatch: Size, Write, TrackEntry
WriteFrame(w, e) ==
    SetCur(w, TrackEntry(Cur(w), e.Index, Size(Cur(w), CurFile(w))),
           Write(Cur(w), CurFile(w), Encode(e), -1))

\* the write loop of WriteBatch over the first k stamped entries
RECURSIVE WriteFrames(_, _, _)
WriteFrames(w, ents, k) ==
    IF k = 0 THEN w ELSE WriteFrame(WriteFrames(w, ents, k - 1), ents[k])

\* the number of frames a WriteBatch under fault writes whole before it fails
FramesBefore(w, ents, fault) ==
    IF ~Cur(w).open THEN 0
    ELSE IF fault.kind = "write" /\ fault.cut < Len(Frame(Encode(ents[fault.at])))
    THEN fault.at - 1
    ELSE Len(ents)

\* WAL.WriteBatch after k whole frames: the frame whose Write fails and the
\* truncation back to startOffset; or the sync, then the cursor
BatchWritten(w, ents, k, startOffset, fault) ==
    IF k < Len(ents)
    THEN Res(SetCur(w, Cur(w),
                    FileTruncate(Cur(w),
                                 Write(Cur(w), CurFile(w), Encode(ents[k + 1]),
                                       IF fault.kind = "write" THEN fault.cut ELSE 0),
                                 startOffset)),
             "IOFailure", <<>>)
    ELSE IF syncAfterWrite /\ fault.kind = "sync"
    THEN Res(SetCur(w, Cur(w), FileTruncate(Cur(w), CurFile(w), startOffset)),
             "IOFailure", <<>>)
    ELSE Res([w EXCEPT !.cusror = AdvanceCursor(w.cusror, ents[1].Index,
                                                ents[Len(ents)].Index)],
             "nil", [i \in 1..Len(ents) |-> ents[i].Index])

\* WAL.WriteBatch over its stamped entries: startOffset, the write loop
BatchStamped(w, ents, fault) ==
    BatchWritten(WriteFrames(w, ents, FramesBefore(w, ents, fault)), ents,
                 FramesBefore(w, ents, fault), Size(Cur(w), CurFile(w)), fault)

\* WAL.WriteBatch: the stamp loop
BatchOn(w, entries, fault, t) ==
    BatchStamped(w, Stamp(entries, w.cusror.LastIndex, t), fault)

\* WAL.WriteBatch of a non-empty batch, from the check of the current segment on
WriteBatchLog(w0, entries, fault, t) == BatchOn(ensureSegment(w0), entries, fault, t)

\* WAL.findSegmentByIndex: the first listed segment that contains index
findSegmentByIndex(w, index) ==
    LET hits == {i \in 1..Len(w.segments) : ContainsIndex(w.segs[w.segments[i]], index)}
    IN IF hits = {} THEN NilSegment
       ELSE w.segments[CHOOSE i \in hits : \A j \in hits : i <= j]

FileOf(w, x) == IF x \in DOMAIN w.files THEN w.files[x] ELSE <<>>

\* the read of one index that Get and GetRange share: segment, frame, Decode
ReadIndex(w, index) ==
    LET x == findSegmentByIndex(w, index)
        r == GetEntryByIndex(w.segs[x], FileOf(w, x), index)
    IN IF x = NilSegment THEN [err |-> "SegmentNotFound", entry |-> Entry(0, 0, 0, 0)]
       ELSE IF r.err # "nil" THEN [err |-> "IOFailure", entry |-> Entry(0, 0, 0, 0)]
       ELSE IF ~DecodeOk(r.data) THEN [err |-> "DecodeError", entry |-> Entry(0, 0, 0, 0)]
       ELSE [err |-> "nil", entry |-> Decode(r.data)]

\* WAL.Get on an open log
Get(w, index) ==
    IF index < w.cusror.FirstIndex \/ index > w.cusror.LastIndex
    THEN [err |-> "IndexOutOfRange", entry |-> Entry(0, 0, 0, 0)]
    ELSE ReadIndex(w, index)

\* WAL.GetRange on an open log: indices without a segment are skipped, the
\* first failing read fails the call
RECURSIVE GetRangeFrom(_, _, _)
GetRangeFrom(w, i, end) ==
    IF i > end THEN [err |-> "nil", entries |-> <<>>]
    ELSE IF findSegmentByIndex(w, i) = NilSegment THEN GetRangeFrom(w, i + 1, end)
    ELSE LET r == ReadIndex(w, i)
             rest == GetRangeFrom(w, i + 1, end)
         IN IF r.err # "nil" THEN [err |-> r.err, entries |-> <<>>]
            ELSE IF rest.err # "nil" THEN rest
            ELSE [err |-> "nil", entries |-> <<r.entry>> \o rest.entries]

GetRange(w, start, end) ==
    IF start > end THEN [err |-> "IndexOutOfRange", entries |-> <<>>]
    ELSE GetRangeFrom(w, start, end)

\* what a reader sees of the log: the cursor, and Get of every index in it
Readable(w) ==
    [cusror |-> w.cusror,
     entries |-> [k \in 1..(IF w.cusror.LastIndex = 0 THEN 0
                            ELSE w.cusror.LastIndex - w.cusror.FirstIndex + 1) |->
                     Get(w, w.cusror.FirstIndex + k - 1)]]

\* the loop of WAL.Truncate, from the last listed segment down; list is the
\* segment list the loop runs over, i the position it is at
RECURSIVE TruncateLoop(_, _, _, _)
TruncateLoop(w, list, i, index) ==
    IF i = 0 THEN Res(w, "nil", <<>>)
    ELSE
      LET x == list[i]
          seg == w.segs[x]
          localIdx == index - seg.firstEntry
      IN IF seg.firstEntry > index
         THEN \* seg.Close(); os.Remove(seg.filePath); w.segments = w.segments[:i]
              TruncateLoop([w EXCEPT !.segs[x].open = FALSE,
                                     !.files = Drop(w.files, {x}),
                                     !.segments = Take(list, i - 1)],
                           list, i - 1, index)
         ELSE IF ContainsIndex(seg, index)
         THEN IF Len(seg.entryOffsets) = 0
              THEN \* uint64(len(entryOffsets)-1) wraps: entryOffsets[localIdx+1] panics
                   Res(w, "panic", <<>>)
              ELSE IF localIdx < Len(seg.entryOffsets) - 1
              THEN LET nextOffset == seg.entryOffsets[localIdx + 2]
                   IN Res([w EXCEPT !.files = IF x \in DOMAIN w.files
                                               THEN [w.files EXCEPT ![x] =
                                                        FileTruncate(seg, w.files[x], nextOffset)]
                                               ELSE w.files,
                                    !.segs[x].lastEntry = index,
                                    !.segs[x].entryOffsets = Take(seg.entryOffsets, localIdx + 1)],
                          "nil", <<>>)
              ELSE Res(w, "nil", <<>>)
         ELSE TruncateLoop(w, list, i - 1, index)

\* WAL.Truncate on an open log
TruncateLog(w, index) ==
    LET r == TruncateLoop(w, w.segments, Len(w.segments), index)
    IN IF r.err = "panic" THEN r
       ELSE Res([r.w EXCEPT !.cusror.LastIndex = index], "nil", <<>>)

\* ----------------------------------------------------------------- recovery
\* loadSegments: the segment files in name order, each opened
RECURSIVE SortedSeq(_)
SortedSeq(S) ==
    IF S = {} THEN <<>>
    ELSE LET m == CHOOSE x \in S : \A y \in S : x <= y
         IN <<m>> \o SortedSeq(S \ {m})

loadSegments(fs) == SortedSeq(DOMAIN fs)

\* WAL.handleCorruptedEntry: the file cut at offset; the error is that of
\* file.Truncate, nil on an open file
handleCorruptedEntry(w, x, offset) ==
    [w EXCEPT !.files[x] = FileTruncate(w.segs[x], w.files[x], offset),
              !.err = IF w.segs[x].open THEN "nil" ELSE "IOFailure"]

\* seeded fault: recovery that sets the cursor from the first record only
RecoveredCursorFirst(c, index) ==
    [FirstIndex |-> IF c.FirstIndex = 0 THEN index ELSE c.FirstIndex,
     LastIndex |-> IF c.LastIndex = 0 THEN index ELSE c.LastIndex]

\* recoverSegment: the cursor after the record with index
RecoveredCursor(c, index) ==
    [FirstIndex |-> IF c.FirstIndex = 0 THEN index ELSE c.FirstIndex,
     LastIndex |-> index]

\* WAL.recoverSegment: the scan of segment x from offset
RECURSIVE recoverSegment(_, _, _)
recoverSegment(w, x, offset) ==
    LET r == ReadAt(w.segs[x], w.files[x], offset)
    IN IF r.err = "EOF" THEN w
       ELSE IF r.err # "nil" THEN handleCorruptedEntry(w, x, offset)
       ELSE IF ~DecodeOk(r.data) THEN handleCorruptedEntry(w, x, offset)
       ELSE LET entry == Decode(r.data)
                w1 == [w EXCEPT !.segs[x] = TrackEntry(w.segs[x], entry.Index, offset),
                                !.cusror = RecoveredCursor(w.cusror, entry.Index)]
            IN recoverSegment(w1, x, r.next)

\* WAL.recover: w.status = Corrupted when recoverSegment returned an error
recoverStatus(w) == IF w.err # "nil" THEN "Corrupted" ELSE "OK"

\* the loop of WAL.recover over the segments: it returns at the first error
RECURSIVE recoverAll(_, _)
recoverAll(w, list) ==
    IF list = <<>> \/ w.err # "nil" THEN w
    ELSE recoverAll(recoverSegment(w, Head(list), 0), Tail(list))

\* WAL.recover on the WAL that NewWAL built over the directory fs
recover(fs) ==
    LET list == loadSegments(fs)
        w0 == [cusror |-> StartCursor, segments |-> <<>>, currentSegment |-> NilSegment,
               segs |-> [x \in DOMAIN fs |-> NewSegment(x)], files |-> fs, err |-> "nil"]
    IN IF list = <<>> THEN w0
       ELSE recoverAll([w0 EXCEPT !.segments = list, !.currentSegment = Last(list)], list)

\* ------------------------------------------------------------- transactions
\* type Transaction
Transaction(st, ents, start, timeout) ==
    [State |-> st, Entries |-> ents, StartTime |-> start, Timeout |-> timeout]

\* seeded fault: no transaction ever expires
IsExpiredNever(tx, t) == FALSE

\* Transaction.IsExpired at time t
IsExpired(tx, t) == IF tx.Timeout = 0 THEN FALSE ELSE t - tx.StartTime > tx.Timeout

\* WAL.rollbackAllPendingTransactions: every pending transaction aborted and removed
rollbackAllPendingTransactions(txs) ==
    Drop(txs, {id \in DOMAIN txs : txs[id].State = "Pending"})

\* seeded fault: the sweep without the test of the state
CleanupExpiredAnyState(txs, t) ==
    Drop(txs, {id \in DOMAIN txs : IsExpired(txs[id], t)})

\* seeded fault: the sweep without the test of the expiry
CleanupExpiredPending(txs, t) ==
    Drop(txs, {id \in DOMAIN txs : txs[id].State = "Pending"})

\* WAL.CleanupExpiredTransactions: the table after the sweep at time t
CleanupExpired(txs, t) ==
    Drop(txs, {id \in DOMAIN txs : IsExpired(txs[id], t) /\ txs[id].State = "Pending"})

\* -------------------------------------------------------------------- locks
\* the threads that call the log
Threads == 1..MaxThreads

\* one step of a call on w.mu or w.transactionsMu: Lock, RLock, Unlock, RUnlock
LockStep(kind, lock) == [kind |-> kind, lock |-> lock]

\* Append, WriteBatch, Truncate, and Close on a closed log: w.mu.Lock(), defer w.mu.Unlock()
LogWriteLocks == <<LockStep("Lock", "mu"), LockStep("Unlock", "mu")>>

\* Get, GetRange: w.mu.RLock(), defer w.mu.RUnlock()
LogReadLocks == <<LockStep("RLock", "mu"), LockStep("RUnlock", "mu")>>

\* BeginTransaction, AddToTransaction, RollbackTransaction,
\* CleanupExpiredTransactions, and CommitTransaction when its checks fail:
\* w.transactionsMu.Lock(), then Unlock()
TableLocks == <<LockStep("Lock", "transactionsMu"), LockStep("Unlock", "transactionsMu")>>

\* Close on an open log: w.mu held over rollbackAllPendingTransactions, which
\* takes w.transactionsMu for the time it works on the table
CloseLocks ==
    <<LockStep("Lock", "mu"), LockStep("Lock", "transactionsMu"),
      LockStep("Unlock", "transactionsMu"), LockStep("Unlock", "mu")>>

\* seeded fault: CommitTransaction keeps w.transactionsMu over its WriteBatch
CommitLocksNested ==
    <<LockStep("Lock", "transactionsMu"), LockStep("Lock", "mu"),
      LockStep("Unlock", "mu"), LockStep("Unlock", "transactionsMu")>>

\* CommitTransaction that passes its checks: w.transactionsMu released before
\* WriteBatch takes w.mu, and taken again for the delete
CommitLocks ==
    <<LockStep("Lock", "transactionsMu"), LockStep("Unlock", "transactionsMu"),
      LockStep("Lock", "mu"), LockStep("Unlock", "mu"),
      LockStep("Lock", "transactionsMu"), LockStep("Unlock", "transactionsMu")>>

Operations ==
    {"Append", "WriteBatch", "Get", "GetRange", "Truncate", "Close", "BeginTransaction",
     "AddToTransaction", "CommitTransaction", "RollbackTransaction",
     "CleanupExpiredTransactions"}

\* the lock steps a call of op can go through, one sequence for each of its paths
Paths(op) ==
    CASE op \in {"Append", "WriteBatch", "Truncate"} -> {LogWriteLocks}
      [] op \in {"Get", "GetRange"} -> {LogReadLocks}
      [] op = "Close" -> {LogWriteLocks, CloseLocks}
      [] op = "CommitTransaction" -> {TableLocks, CommitLocks}
      [] OTHER -> {TableLocks}

\* a thread that runs no call and has returned from n calls
Idle(n) == [op |-> "none", path |-> <<>>, at |-> 0, done |-> n]

\* the last step call c has done on lock, "none" if it has done none
LastOn(c, lock) ==
    LET done == SelectSeq(SubSeq(c.path, 1, c.at), LAMBDA s : s.lock = lock)
    IN IF done = <<>> THEN "none" ELSE Last(done).kind

\* sync.RWMutex: Lock waits for every holder, RLock for the writer
CanTake(cs, s) ==
    IF s.kind = "Lock" THEN \A u \in DOMAIN cs : LastOn(cs[u], s.lock) \notin {"Lock", "RLock"}
    ELSE \A u \in DOMAIN cs : LastOn(cs[u], s.lock) # "Lock"

\* ------------------------------------------------------------------ actions
\* the record of the last call that returned: its name, transaction id, error,
\* returned indices, LastIndex when it took the log, frames written, entries
Ret(op, tx, err, val, pre, k, ents) ==
    [op |-> op, tx |-> tx, err |-> err, val |-> val, pre |-> pre, k |-> k, ents |-> ents]

SetLog(w) ==
    /\ cusror' = w.cusror
    /\ segments' = w.segments
    /\ currentSegment' = w.currentSegment
    /\ segs' = w.segs
    /\ files' = w.files

logVars == <<cusror, segments, currentSegment, segs, files>>
txVars == <<transactions, commits, nextTx>>

Running == state \in {"Open", "Closed"}

\* a fault is injected only where it changes what the call does, and only
\* while the budget of failures lasts
Injected(fault, r, r0) == fault = NoFault \/ (faults < MaxFaults /\ r # r0)
\* the log lock is free
Unlocked == Running /\ ~closing

Init ==
    /\ state = "Open"
    /\ status = "OK"
    /\ cusror = StartCursor
    /\ segments = <<>>
    /\ currentSegment = NilSegment
    /\ segs = <<>>
    /\ files = <<>>
    /\ transactions = <<>>
    /\ commits = <<>>
    /\ nextTx = 1
    /\ now = StartTime0
    /\ recoveries = 0
    /\ closing = FALSE
    /\ faults = 0
    /\ truncs = 0
    /\ lastAppended = 0
    /\ elapsed = {}
    /\ swept = {}
    /\ atClose = [cusror |-> StartCursor, entries |-> <<>>]
    /\ calls = [t \in Threads |-> Idle(0)]
    /\ sweeper = "off"
    /\ ret = Ret("Open", NoTx, "nil", <<>>, 0, 0, <<>>)

\* WAL.Append (Append is the operator of Sequences)
WAL_Append(entry, fault) ==
    /\ Unlocked
    /\ IF state = "Closed"
       THEN /\ fault = NoFault
            /\ ret' = Ret("Append", NoTx, "LogClosed", <<>>, cusror.LastIndex, 0, <<entry>>)
            /\ UNCHANGED logVars
       ELSE /\ cusror.LastIndex < MaxIndex
            /\ Injected(fault, AppendLog(Log, entry, fault), AppendLog(Log, entry, NoFault))
            /\ LET r == AppendLog(Log, entry, fault)
               IN /\ SetLog(r.w)
                  /\ ret' = Ret("Append", NoTx, r.err, r.val, cusror.LastIndex, 0, <<entry>>)
    /\ faults' = IF fault = NoFault THEN faults ELSE faults + 1
    /\ lastAppended' = IF ret'.err = "nil" THEN ret'.val[1] ELSE lastAppended
    /\ UNCHANGED <<state, status, txVars, now, recoveries, closing, truncs, elapsed, swept, atClose, calls, sweeper>>

\* WAL.WriteBatch
WriteBatch(entries, fault) ==
    /\ Unlocked
    /\ IF state = "Closed"
       THEN /\ fault = NoFault
            /\ ret' = Ret("WriteBatch", NoTx, "LogClosed", <<>>, cusror.LastIndex, 0, entries)
            /\ UNCHANGED logVars
       ELSE IF Len(entries) = 0
       THEN /\ fault = NoFault
            /\ ret' = Ret("WriteBatch", NoTx, "nil", <<>>, cusror.LastIndex, 0, entries)
            /\ UNCHANGED logVars
       ELSE /\ cusror.LastIndex + Len(entries) <= MaxIndex
            /\ Injected(fault, WriteBatchLog(Log, entries, fault, now),
                        WriteBatchLog(Log, entries, NoFault, now))
            /\ LET r == WriteBatchLog(Log, entries, fault, now)
               IN /\ SetLog(r.w)
                  /\ ret' = Ret("WriteBatch", NoTx, r.err, r.val, cusror.LastIndex,
                                FramesBefore(ensureSegment(Log),
                                             Stamp(entries, cusror.LastIndex, now), fault),
                                Stamp(entries, cusror.LastIndex, now))
    /\ faults' = IF fault = NoFault THEN faults ELSE faults + 1
    /\ UNCHANGED <<state, status, txVars, now, recoveries, closing, truncs, lastAppended, elapsed, swept, atClose, calls, sweeper>>

\* WAL.Truncate; its panic ends the process
Truncate(index) ==
    /\ Unlocked
    /\ IF state = "Closed"
       THEN /\ ret' = Ret("Truncate", NoTx, "LogClosed", <<>>, cusror.LastIndex, index, <<>>)
            /\ UNCHANGED <<logVars, state, txVars, truncs, sweeper>>
       ELSE LET r == TruncateLog(Log, index)
            IN /\ truncs < MaxTruncates
               /\ truncs' = truncs + 1
               /\ IF r.err = "panic"
                  THEN /\ state' = "Crashed"
                       /\ cusror' = StartCursor
                       /\ segments' = <<>>
                       /\ currentSegment' = NilSegment
                       /\ segs' = <<>>
                       /\ files' = r.w.files
                       /\ transactions' = <<>>
                       /\ commits' = <<>>
                       /\ nextTx' = nextTx
                       /\ sweeper' = "off"
                       /\ ret' = Ret("Crash", NoTx, "panic", <<>>, 0, 0, <<>>)
                  ELSE /\ SetLog(r.w)
                       /\ ret' = Ret("Truncate", NoTx, "nil", <<>>, cusror.LastIndex, index, <<>>)
                       /\ UNCHANGED <<state, txVars, sweeper>>
    /\ UNCHANGED <<status, now, recoveries, closing, faults, lastAppended, elapsed, swept, atClose, calls>>

\* WAL.Get
WAL_Get(index) ==
    /\ Unlocked
    /\ ret' = IF state = "Closed"
              THEN Ret("Get", NoTx, "LogClosed", <<>>, cusror.LastIndex, index, <<>>)
              ELSE Ret("Get", NoTx, Get(Log, index).err, <<>>, cusror.LastIndex, index,
                       IF Get(Log, index).err = "nil" THEN <<Get(Log, index).entry>>
                       ELSE <<>>)
    /\ UNCHANGED <<logVars, state, status, txVars, now, recoveries, closing, faults, truncs, lastAppended, elapsed, swept, atClose, calls, sweeper>>

\* WAL.GetRange
WAL_GetRange(start, end) ==
    /\ Unlocked
    /\ ret' = IF state = "Closed"
              THEN Ret("GetRange", NoTx, "LogClosed", <<>>, cusror.LastIndex, start, <<>>)
              ELSE Ret("GetRange", NoTx, GetRange(Log, start, end).err, <<>>,
                       cusror.LastIndex, start, GetRange(Log, start, end).entries)
    /\ UNCHANGED <<logVars, state, status, txVars, now, recoveries, closing, faults, truncs, lastAppended, elapsed, swept, atClose, calls, sweeper>>

\* ------------------------------------------------------- transaction actions
TxIds == 1..MaxTx
TimeoutInputs == {0, DefaultTimeout}

\* seeded fault: BeginTransaction without the test of the state of the log
BeginTransactionAnyState(timeout) ==
    /\ Running
    /\ nextTx <= MaxTx
    /\ transactions' =
          Put(transactions, nextTx,
              Transaction("Pending", <<>>, now, IF timeout = 0 THEN DefaultTimeout ELSE timeout))
    /\ nextTx' = nextTx + 1
    /\ ret' = Ret("BeginTransaction", nextTx, "nil", <<>>, cusror.LastIndex, 0, <<>>)
    /\ UNCHANGED <<logVars, state, status, commits, now, recoveries, closing, faults, truncs, lastAppended, elapsed, swept, atClose, calls, sweeper>>

\* WAL.BeginTransaction
BeginTransaction(timeout) ==
    /\ Running
    /\ IF state = "Closed"
       THEN /\ ret' = Ret("BeginTransaction", NoTx, "LogClosed", <<>>, cusror.LastIndex, 0, <<>>)
            /\ UNCHANGED txVars
       ELSE /\ nextTx <= MaxTx
            /\ transactions' =
                  Put(transactions, nextTx,
                      Transaction("Pending", <<>>, now,
                                  IF timeout = 0 THEN DefaultTimeout ELSE timeout))
            /\ nextTx' = nextTx + 1
            /\ ret' = Ret("BeginTransaction", nextTx, "nil", <<>>, cusror.LastIndex, 0, <<>>)
            /\ UNCHANGED commits
    /\ UNCHANGED <<logVars, state, status, now, recoveries, closing, faults, truncs, lastAppended, elapsed, swept, atClose, calls, sweeper>>

\* seeded fault: the check without the test of the state
TxCheckAnyState(txs, txID, t, checkExpiry) ==
    IF txID \notin DOMAIN txs THEN "TransactionNotFound"
    ELSE IF checkExpiry /\ IsExpired(txs[txID], t) THEN "TransactionExpired"
    ELSE "nil"

\* the error AddToTransaction, CommitTransaction and RollbackTransaction give
\* for txID before they act, "nil" when they go on
TxCheck(txs, txID, t, checkExpiry) ==
    IF txID \notin DOMAIN txs THEN "TransactionNotFound"
    ELSE IF txs[txID].State # "Pending" THEN "TransactionNotPending"
    ELSE IF checkExpiry /\ IsExpired(txs[txID], t) THEN "TransactionExpired"
    ELSE "nil"

\* the lazy expiry of AddToTransaction and CommitTransaction: State = Aborted
AbortExpired(txs, txID) == [txs EXCEPT ![txID].State = "Aborted"]

\* seeded fault: the limit tested one entry late
TooLargeLate(tx) == Len(tx.Entries) > MaxEntries

\* AddToTransaction: len(tx.Entries) >= MaxEntries
TooLarge(tx) == Len(tx.Entries) >= MaxEntries

\* seeded fault: AddToTransaction writes the entry it stages to the log at once
AddToTransactionWriting(txID, entry) ==
    /\ state = "Open"
    /\ ~closing
    /\ TxCheck(transactions, txID, now, TRUE) = "nil"
    /\ ~TooLarge(transactions[txID])
    /\ cusror.LastIndex < MaxIndex
    /\ transactions' = [transactions EXCEPT ![txID].Entries =
                            Append(@, [entry EXCEPT !.TransactionID = txID])]
    /\ SetLog(AppendLog(Log, [entry EXCEPT !.TransactionID = txID], NoFault).w)
    /\ ret' = Ret("AddToTransaction", txID, "nil", <<>>, cusror.LastIndex, 0, <<>>)
    /\ UNCHANGED <<state, status, commits, nextTx, now, recoveries, closing, faults, truncs, lastAppended, elapsed, swept, atClose, calls, sweeper>>

\* WAL.AddToTransaction
AddToTransaction(txID, entry) ==
    /\ Running
    /\ LET err == TxCheck(transactions, txID, now, TRUE)
       IN IF err = "TransactionExpired"
          THEN /\ transactions' = AbortExpired(transactions, txID)
               /\ ret' = Ret("AddToTransaction", txID, err, <<>>, cusror.LastIndex, 0, <<>>)
          ELSE IF err # "nil"
          THEN /\ ret' = Ret("AddToTransaction", txID, err, <<>>, cusror.LastIndex, 0, <<>>)
               /\ UNCHANGED transactions
          ELSE IF TooLarge(transactions[txID])
          THEN /\ ret' = Ret("AddToTransaction", txID, "TransactionTooLarge", <<>>,
                             cusror.LastIndex, 0, <<>>)
               /\ UNCHANGED transactions
          ELSE /\ transactions' =
                     [transactions EXCEPT ![txID].Entries =
                         Append(@, [entry EXCEPT !.TransactionID = txID])]
               /\ ret' = Ret("AddToTransaction", txID, "nil", <<>>, cusror.LastIndex, 0, <<>>)
    /\ UNCHANGED <<logVars, state, status, commits, nextTx, now, recoveries, closing, faults, truncs, lastAppended, elapsed, swept, atClose, calls, sweeper>>

\* WAL.CommitTransaction, its first locked section: the checks, State = Committed,
\* the copy of the staged entries
CommitTransaction(txID) ==
    /\ Running
    /\ LET err == TxCheck(transactions, txID, now, TRUE)
       IN IF err = "TransactionExpired"
          THEN /\ transactions' = AbortExpired(transactions, txID)
               /\ ret' = Ret("CommitTransaction", txID, err, <<>>, cusror.LastIndex, 0, <<>>)
               /\ UNCHANGED commits
          ELSE IF err # "nil"
          THEN /\ ret' = Ret("CommitTransaction", txID, err, <<>>, cusror.LastIndex, 0, <<>>)
               /\ UNCHANGED <<transactions, commits>>
          ELSE /\ transactions' = [transactions EXCEPT ![txID].State = "Committed"]
               /\ commits' = Put(commits, txID,
                                 [entries |-> transactions[txID].Entries, phase |-> "flush",
                                  res |-> Ret("CommitTransaction", txID, "nil", <<>>, 0, 0, <<>>)])
               /\ UNCHANGED ret
    /\ UNCHANGED <<logVars, state, status, nextTx, now, recoveries, closing, faults, truncs, lastAppended, elapsed, swept, atClose, calls, sweeper>>

\* CommitTransaction, w.WriteBatch(entries) under the log lock
CommitFlush(txID, fault) ==
    /\ Unlocked
    /\ txID \in DOMAIN commits
    /\ commits[txID].phase = "flush"
    /\ LET entries == commits[txID].entries
           done(r) == commits' = [commits EXCEPT ![txID].phase = "remove", ![txID].res = r]
       IN IF state = "Closed"
          THEN /\ fault = NoFault
               /\ done(Ret("CommitTransaction", txID, "LogClosed", <<>>, cusror.LastIndex, 0, entries))
               /\ UNCHANGED logVars
          ELSE IF Len(entries) = 0
          THEN /\ fault = NoFault
               /\ done(Ret("CommitTransaction", txID, "nil", <<>>, cusror.LastIndex, 0, entries))
               /\ UNCHANGED logVars
          ELSE /\ cusror.LastIndex + Len(entries) <= MaxIndex
               /\ Injected(fault, WriteBatchLog(Log, entries, fault, now),
                           WriteBatchLog(Log, entries, NoFault, now))
               /\ LET r == WriteBatchLog(Log, entries, fault, now)
                  IN /\ SetLog(r.w)
                     /\ done(Ret("CommitTransaction", txID, r.err, r.val, cusror.LastIndex,
                                 FramesBefore(ensureSegment(Log),
                                              Stamp(entries, cusror.LastIndex, now), fault),
                                 Stamp(entries, cusror.LastIndex, now)))
    /\ faults' = IF fault = NoFault THEN faults ELSE faults + 1
    /\ UNCHANGED <<state, status, transactions, nextTx, now, recoveries, closing, ret, truncs, lastAppended, elapsed, swept, atClose, calls, sweeper>>

\* seeded fault: the transaction removed only when its WriteBatch succeeded
CommitRemoveOnSuccess(txID) ==
    /\ Running
    /\ txID \in DOMAIN commits
    /\ commits[txID].phase = "remove"
    /\ transactions' = IF commits[txID].res.err = "nil" THEN Drop(transactions, {txID})
                       ELSE transactions
    /\ commits' = Drop(commits, {txID})
    /\ ret' = commits[txID].res
    /\ UNCHANGED <<logVars, state, status, nextTx, now, recoveries, closing, faults, truncs, lastAppended, elapsed, swept, atClose, calls, sweeper>>

\* CommitTransaction, its last locked section: delete(w.transactions, txID), return
CommitRemove(txID) ==
    /\ Running
    /\ txID \in DOMAIN commits
    /\ commits[txID].phase = "remove"
    /\ transactions' = Drop(transactions, {txID})
    /\ commits' = Drop(commits, {txID})
    /\ ret' = commits[txID].res
    /\ UNCHANGED <<logVars, state, status, nextTx, now, recoveries, closing, faults, truncs, lastAppended, elapsed, swept, atClose, calls, sweeper>>

\* WAL.RollbackTransaction
RollbackTransaction(txID) ==
    /\ Running
    /\ LET err == TxCheck(transactions, txID, now, FALSE)
       IN /\ transactions' = IF err = "nil" THEN Drop(transactions, {txID}) ELSE transactions
          /\ ret' = Ret("RollbackTransaction", txID, err, <<>>, cusror.LastIndex, 0, <<>>)
    /\ UNCHANGED <<logVars, state, status, commits, nextTx, now, recoveries, closing, faults, truncs, lastAppended, elapsed, swept, atClose, calls, sweeper>>

\* WAL.CleanupExpiredTransactions, the sweep
CleanupExpiredTransactions ==
    /\ Running
    /\ transactions' = CleanupExpired(transactions, now)
    /\ swept' = swept \cup (DOMAIN transactions \ DOMAIN transactions')
    /\ ret' = Ret("CleanupExpiredTransactions", NoTx, "nil", <<>>, cusror.LastIndex,
                  Cardinality(DOMAIN transactions \ DOMAIN transactions'), <<>>)
    /\ UNCHANGED <<logVars, state, status, commits, nextTx, now, recoveries, closing, faults, truncs, lastAppended, elapsed, atClose, calls, sweeper>>

\* the timeout of tx has elapsed at time t
TimedOut(tx, t) == tx.Timeout # 0 /\ t > tx.StartTime + tx.Timeout

\* time passes
Tick ==
    /\ Running
    /\ now < MaxTime
    /\ now' = now + 1
    /\ elapsed' = elapsed \cup {id \in DOMAIN transactions :
                                    /\ transactions[id].State = "Pending"
                                    /\ TimedOut(transactions[id], now + 1)}
    /\ UNCHANGED <<logVars, state, status, txVars, recoveries, closing, faults, ret, truncs, lastAppended, swept, atClose, calls, sweeper>>

\* ------------------------------------------------------------ close, reopen
\* WAL.Close up to the end of rollbackAllPendingTransactions, the log lock held
Close ==
    /\ Unlocked
    /\ IF state = "Closed"
       THEN /\ ret' = Ret("Close", NoTx, "nil", <<>>, cusror.LastIndex, 0, <<>>)
            /\ UNCHANGED <<transactions, closing, atClose>>
       ELSE /\ transactions' = rollbackAllPendingTransactions(transactions)
            /\ closing' = TRUE
            /\ atClose' = Readable(Log)
            /\ UNCHANGED ret
    /\ UNCHANGED <<logVars, state, status, commits, nextTx, now, recoveries, faults, truncs, lastAppended, elapsed, swept, calls, sweeper>>

\* WAL.Close from there: every listed segment synced and closed, the list
\* dropped, state = Closed
CloseFinish ==
    /\ Running
    /\ closing
    /\ segs' = [x \in DOMAIN segs |->
                   IF x \in Range(segments) THEN [segs[x] EXCEPT !.open = FALSE] ELSE segs[x]]
    /\ segments' = <<>>
    /\ currentSegment' = NilSegment
    /\ state' = "Closed"
    /\ closing' = FALSE
    /\ ret' = Ret("Close", NoTx, "nil", <<>>, cusror.LastIndex, 0, <<>>)
    /\ UNCHANGED <<cusror, files, status, txVars, now, recoveries, faults, truncs, lastAppended, elapsed, swept, atClose, calls, sweeper>>

\* the process dies: the files stay, the WAL object and its calls are gone
Dies(fs, r) ==
    /\ state' = "Crashed"
    /\ cusror' = StartCursor
    /\ segments' = <<>>
    /\ currentSegment' = NilSegment
    /\ segs' = <<>>
    /\ files' = fs
    /\ transactions' = <<>>
    /\ commits' = <<>>
    /\ closing' = FALSE
    /\ sweeper' = "off"
    /\ ret' = r
    /\ UNCHANGED <<status, nextTx, now, recoveries, faults, truncs, lastAppended, elapsed, swept, atClose, calls>>

\* a crash between calls
Crash ==
    /\ state = "Open"
    /\ recoveries < MaxRecoveries
    /\ Dies(files, Ret("Crash", NoTx, "nil", <<>>, cusror.LastIndex, 0, <<>>))

\* the files when the process dies inside the write loop of WriteBatch: the
\* frames before the one in fault, and fault.cut cells of that one
CrashCut(w, e, cut) == SetCur(w, Cur(w), Write(Cur(w), CurFile(w), Encode(e), cut)).files
CrashOn(w, ents, fault) ==
    CrashCut(WriteFrames(w, ents, fault.at - 1), ents[fault.at], fault.cut)
CrashFiles(w0, entries, fault, t) ==
    CrashOn(ensureSegment(w0), Stamp(entries, w0.cusror.LastIndex, t), fault)

\* a crash while CommitTransaction's WriteBatch writes its frames
CrashInCommit(txID, fault) ==
    /\ state = "Open"
    /\ ~closing
    /\ recoveries < MaxRecoveries
    /\ txID \in DOMAIN commits
    /\ commits[txID].phase = "flush"
    /\ Len(commits[txID].entries) > 0
    /\ cusror.LastIndex + Len(commits[txID].entries) <= MaxIndex
    /\ fault.kind = "write"
    /\ Cur(ensureSegment(Log)).open
    /\ Dies(CrashFiles(Log, commits[txID].entries, fault, now),
            Ret("Crash", txID, "nil", <<>>, cusror.LastIndex, fault.at - 1,
                Stamp(commits[txID].entries, cusror.LastIndex, now)))

\* Open: NewWAL and recover over the directory, state = Open.  The record of
\* a crash inside a commit is kept in ret.
Open ==
    /\ state \in {"Closed", "Crashed"}
    /\ ~closing
    /\ commits = <<>>
    /\ recoveries < MaxRecoveries
    /\ recoveries' = recoveries + 1
    /\ SetLog(recover(files))
    /\ state' = IF recover(files).err = "nil" THEN "Open" ELSE state
    /\ status' = recoverStatus(recover(files))
    /\ transactions' = <<>>
    /\ commits' = <<>>
    /\ ret' = Ret("Open", ret.tx, recover(files).err, <<>>, ret.pre, ret.k,
                  IF ret.op = "Crash" THEN ret.ents ELSE <<>>)
    /\ UNCHANGED <<nextTx, now, closing, faults, truncs, lastAppended, elapsed, swept, atClose, calls, sweeper>>

\* ------------------------------------------------- the calls and their locks
dataVars == <<state, status, logVars, txVars, now, recoveries, closing, faults, truncs,
              lastAppended, elapsed, swept, atClose, sweeper, ret>>

\* thread t calls op, which will take the path
Invoke(t, op, path) ==
    /\ calls[t].op = "none"
    /\ calls[t].done < MaxCalls
    /\ path \in Paths(op)
    /\ calls' = [calls EXCEPT ![t] = [op |-> op, path |-> path, at |-> 0, done |-> @.done]]
    /\ UNCHANGED dataVars

\* the call of thread t gets the lock it is at
Acquire(t) ==
    /\ calls[t].at < Len(calls[t].path)
    /\ calls[t].path[calls[t].at + 1].kind \in {"Lock", "RLock"}
    /\ CanTake(calls, calls[t].path[calls[t].at + 1])
    /\ calls' = [calls EXCEPT ![t].at = @ + 1]
    /\ UNCHANGED dataVars

\* the call of thread t releases the lock it is at
Release(t) ==
    /\ calls[t].at < Len(calls[t].path)
    /\ calls[t].path[calls[t].at + 1].kind \in {"Unlock", "RUnlock"}
    /\ calls' = [calls EXCEPT ![t].at = @ + 1]
    /\ UNCHANGED dataVars

\* the call of thread t returns
Return(t) ==
    /\ calls[t].op # "none"
    /\ calls[t].at = Len(calls[t].path)
    /\ calls' = [calls EXCEPT ![t] = Idle(@.done + 1)]
    /\ UNCHANGED dataVars

\* ------------------------------------------------------------ specifications
Batches == SeqsUpTo(EntryInputs, MaxBatch)

NextAppend == \E e \in EntryInputs : \E f \in AppendFaults(e) : WAL_Append(e, f)

NextBatch ==
    \/ NextAppend
    \/ \E es \in Batches : \E f \in BatchFaults(es) : WriteBatch(es, f)

NextLog ==
    \/ NextBatch
    \/ \E i \in 0..MaxIndex : Truncate(i)

\* the transaction calls and the sweep, with the clock; no I/O failure
NextTx ==
    \/ \E t \in TimeoutInputs : BeginTransaction(t)
    \/ \E id \in TxIds : \E e \in EntryInputs : AddToTransaction(id, e)
    \/ \E id \in TxIds : CommitTransaction(id)
    \/ \E id \in DOMAIN commits : CommitFlush(id, NoFault)
    \/ \E id \in TxIds : CommitRemove(id)
    \/ \E id \in TxIds : RollbackTransaction(id)
    \/ CleanupExpiredTransactions
    \/ Tick

NextClose ==
    \/ Close
    \/ CloseFinish

NextCrash ==
    \/ Crash
    \/ \E id \in DOMAIN commits : \E f \in BatchFaults(commits[id].entries) : CrashInCommit(id, f)
    \/ Open

\* the calls of one transaction's life up to its commit
NextCommit ==
    \/ \E t \in TimeoutInputs : BeginTransaction(t)
    \/ \E id \in TxIds : \E e \in EntryInputs : AddToTransaction(id, e)
    \/ \E id \in TxIds : CommitTransaction(id)
    \/ \E id \in DOMAIN commits : \E f \in BatchFaults(commits[id].entries) : CommitFlush(id, f)
    \/ \E id \in TxIds : CommitRemove(id)

\* direct writers next to the commits of one transaction at a time; no I/O failure
NextWrite ==
    \/ \E e \in EntryInputs : WAL_Append(e, NoFault)
    \/ \E es \in Batches : WriteBatch(es, NoFault)
    \/ \E t \in TimeoutInputs : DOMAIN transactions = {} /\ BeginTransaction(t)
    \/ \E id \in TxIds : \E e \in EntryInputs : AddToTransaction(id, e)
    \/ \E id \in TxIds : CommitTransaction(id)
    \/ \E id \in DOMAIN commits : CommitFlush(id, NoFault)
    \/ \E id \in TxIds : CommitRemove(id)

\* the writers without I/O failure, and Truncate
NextTruncate ==
    \/ \E e \in EntryInputs : WAL_Append(e, NoFault)
    \/ \E es \in Batches : WriteBatch(es, NoFault)
    \/ \E i \in 0..MaxIndex : Truncate(i)

\* the writers without I/O failure, Close, and the reopening of the directory
NextReopen ==
    \/ \E e \in EntryInputs : WAL_Append(e, NoFault)
    \/ \E es \in Batches : WriteBatch(es, NoFault)
    \/ NextClose
    \/ Open

\* Append with its I/O failures, Close or a crash, and the reopening
NextRecover ==
    \/ NextAppend
    \/ NextClose
    \/ Crash
    \/ Open

\* the calls on an open log, without I/O failure: Append, Truncate, the
\* readers, and the life of one transaction (its commit calls WriteBatch),
\* with rollback, the sweep and the clock
NextCalls ==
    \/ \E e \in EntryInputs : WAL_Append(e, NoFault)
    \/ \E i \in 0..MaxIndex : Truncate(i)
    \/ \E i \in {cusror.LastIndex, cusror.LastIndex + 1} : WAL_Get(i)
    \/ \E i \in {cusror.FirstIndex, cusror.LastIndex + 1} : WAL_GetRange(i, cusror.LastIndex)
    \/ \E t \in TimeoutInputs : nextTx = 1 /\ BeginTransaction(t)
    \/ \E id \in TxIds : \E e \in EntryInputs : AddToTransaction(id, e)
    \/ \E id \in TxIds : CommitTransaction(id)
    \/ \E id \in DOMAIN commits : CommitFlush(id, NoFault)
    \/ \E id \in TxIds : CommitRemove(id)
    \/ \E id \in TxIds : RollbackTransaction(id)
    \/ CleanupExpiredTransactions
    \/ Tick

\* the calls that test the state of the log, without I/O failure, with Close
\* and the reopening of the directory
NextClosed ==
    \/ \E e \in EntryInputs : WAL_Append(e, NoFault)
    \/ \E es \in Batches : WriteBatch(es, NoFault)
    \/ \E i \in 0..MaxIndex : Truncate(i)
    \/ \E i \in {cusror.LastIndex, cusror.LastIndex + 1} : WAL_Get(i)
    \/ \E i \in {cusror.FirstIndex, cusror.LastIndex + 1} : WAL_GetRange(i, cusror.LastIndex)
    \/ \E t \in TimeoutInputs : BeginTransaction(t)
    \/ NextClose
    \/ Open

Next ==
    \/ NextLog
    \/ NextCalls
    \/ NextCommit
    \/ \E id \in TxIds : RollbackTransaction(id)
    \/ CleanupExpiredTransactions
    \/ Tick
    \/ NextClose
    \/ NextCrash

Spec == Init /\ [][Next]_vars
SpecAppend == Init /\ [][NextAppend]_vars
SpecBatch == Init /\ [][NextBatch]_vars
SpecLog == Init /\ [][NextLog]_vars
SpecTruncate == Init /\ [][NextTruncate]_vars
SpecRecover == Init /\ [][NextRecover]_vars
SpecReopen == Init /\ [][NextReopen]_vars
SpecCalls == Init /\ [][NextCalls]_vars
SpecWrite == Init /\ [][NextWrite]_vars
SpecCommit == Init /\ [][NextCommit]_vars
SpecTx == Init /\ [][NextTx]_vars
SpecTxClose ==
    Init /\ [][NextCommit \/ NextClose \/ (\E id \in TxIds : RollbackTransaction(id))]_vars
SpecCrash == Init /\ [][NextCommit \/ NextCrash]_vars
SpecClosed == Init /\ [][NextClosed]_vars

\* concurrent calls of every operation, as the locks they take and release
NextLocks ==
    \/ \E t \in Threads : \E op \in Operations : \E path \in Paths(op) : Invoke(t, op, path)
    \/ \E t \in Threads : Acquire(t)
    \/ \E t \in Threads : Release(t)
    \/ \E t \in Threads : Return(t)

\* a call that can go on does go on: a goroutine that can run is scheduled
SpecLocks ==
    /\ Init
    /\ [][NextLocks]_vars
    /\ \A t \in Threads : WF_vars(Release(t)) /\ WF_vars(Return(t)) /\ WF_vars(Acquire(t))

\* -------------------------------------------------------------- properties
\* the records a scan of file f from offset finds: whole frames that decode
RECURSIVE StoredIn(_, _)
StoredIn(f, offset) ==
    LET r == ReadAt(NewSegment(0), f, offset)
    IN IF r.err # "nil" \/ ~DecodeOk(r.data) THEN <<>>
       ELSE <<Decode(r.data)>> \o StoredIn(f, r.next)

RECURSIVE StoredOf(_, _)
StoredOf(fs, list) ==
    IF list = <<>> THEN <<>>
    ELSE StoredIn(fs[Head(list)], 0) \o StoredOf(fs, Tail(list))

\* the records stored in the log: those of its segment files, in file order
StoredRecords == StoredOf(files, SortedSeq(DOMAIN files))
StoredIndices == [i \in DOMAIN StoredRecords |-> StoredRecords[i].Index]

\* the number of stored records that carry transaction id
TxRecords(id) ==
    Cardinality({i \in DOMAIN StoredRecords : StoredRecords[i].TransactionID = id})

AppendStep == \E e \in EntryInputs : \E f \in AppendFaults(e) : WAL_Append(e, f)

SizeOf(fs, x) == IF x \in DOMAIN fs THEN Len(fs[x]) ELSE 0
OffsetsOf(ss, x) == IF x \in DOMAIN ss THEN ss[x].entryOffsets ELSE <<>>

C2_StoredIndices ==
    state = "Open" =>
        LET n == IF cusror.LastIndex = 0 THEN 0
                 ELSE cusror.LastIndex - cusror.FirstIndex + 1
        IN StoredIndices = [k \in 1..n |-> cusror.FirstIndex + k - 1]

\* C3: an Append that fails with an I/O error leaves every segment file at its
\* size, every offset index as it was, and the cursor unchanged.
C3_FailedAppend ==
    [][(AppendStep /\ ret'.err = "IOFailure") =>
          /\ cusror' = cusror
          /\ \A x \in DOMAIN files' :
                /\ SizeOf(files', x) = SizeOf(files, x)
                /\ OffsetsOf(segs', x) = OffsetsOf(segs, x)]_vars

C5_AllOrNothing ==
    /\ \A id \in DOMAIN commits : TxRecords(id) \in {0, Len(commits[id].entries)}
    /\ (ret.op = "Open" /\ ret.tx # NoTx) =>
          TxRecords(ret.tx) \in {0, Len(ret.ents)}

C7_CommitReadable ==
    (ret.op = "CommitTransaction" /\ ret.err = "nil") =>
        /\ ret.val = [j \in 1..Len(ret.ents) |-> ret.pre + j]
        /\ \A j \in 1..Len(ret.ents) :
              Get(Log, ret.val[j]) = [err |-> "nil", entry |-> ret.ents[j]]

\* C8: RollbackTransaction gives TransactionNotFound for an id not in the
\* table, TransactionNotPending for a transaction that is not Pending, and
\* otherwise succeeds and removes the transaction; it leaves the cursor, the
\* segment list and the segments unchanged.
C8_Rollback ==
    [][\A id \in TxIds : RollbackTransaction(id) =>
          /\ ret'.err = IF id \notin DOMAIN transactions THEN "TransactionNotFound"
                        ELSE IF transactions[id].State # "Pending"
                        THEN "TransactionNotPending"
                        ELSE "nil"
          /\ ret'.err = "nil" => id \notin DOMAIN transactions'
          /\ \A other \in DOMAIN transactions \ {id} :
                other \in DOMAIN transactions' /\ transactions'[other] = transactions[other]
          /\ UNCHANGED <<cusror, segments, currentSegment, segs, files>>]_vars

\* a successful rollback of a transaction with staged entries, after a commit
\* wrote records
C8_Witness ==
    /\ ret.op = "RollbackTransaction" /\ ret.err = "nil"
    /\ ret.tx \notin DOMAIN transactions
    /\ cusror.LastIndex > 0

\* C9 as stated: CommitTransaction on a transaction whose timeout has elapsed
\* returns TransactionExpired and writes nothing.
C9_AlwaysExpired ==
    [][\A id \in elapsed : CommitTransaction(id) =>
          /\ ret'.op = "CommitTransaction" /\ ret'.tx = id
          /\ ret'.err = "TransactionExpired"
          /\ commits' = commits
          /\ UNCHANGED <<cusror, segments, currentSegment, segs, files>>]_vars

\* C9: CommitTransaction on a transaction whose timeout has elapsed writes
\* nothing and returns TransactionExpired if the transaction is still Pending
\* in the table, TransactionNotFound if it is no longer in the table (the
\* sweep or a rollback removed it), TransactionNotPending if an earlier
\* AddToTransaction or CommitTransaction found it expired and marked it Aborted.
C9_ExpiredCommit ==
    [][\A id \in elapsed : CommitTransaction(id) =>
          /\ ret'.op = "CommitTransaction" /\ ret'.tx = id
          /\ ret'.err = IF id \notin DOMAIN transactions THEN "TransactionNotFound"
                        ELSE IF transactions[id].State = "Aborted"
                        THEN "TransactionNotPending"
                        ELSE "TransactionExpired"
          /\ id \in DOMAIN transactions => transactions'[id].State = "Aborted"
          /\ commits' = commits
          /\ UNCHANGED <<cusror, segments, currentSegment, segs, files>>]_vars

\* a commit of a timed-out transaction that the sweep had removed
C9_Witness ==
    /\ ret.op = "CommitTransaction" /\ ret.err = "TransactionNotFound"
    /\ ret.tx \in elapsed

\* C10: the last step of a CommitTransaction that passed its checks removes
\* the transaction whatever its WriteBatch returned, and an id that has left
\* the table never comes back: AddToTransaction, CommitTransaction and
\* RollbackTransaction with it return TransactionNotFound.
C10_Consumed ==
    [][/\ \A id \in TxIds : CommitRemove(id) =>
             /\ id \notin DOMAIN transactions'
             /\ ret'.op = "CommitTransaction" /\ ret'.tx = id
       /\ \A id \in TxIds : (id < nextTx /\ id \notin DOMAIN transactions) =>
             /\ id \notin DOMAIN transactions'
             /\ ((\/ \E e \in EntryInputs : AddToTransaction(id, e)
                  \/ CommitTransaction(id)
                  \/ RollbackTransaction(id))
                    => ret'.err = "TransactionNotFound")]_vars

\* a commit that failed with LogClosed, its transaction gone from the table
C10_Witness ==
    /\ ret.op = "CommitTransaction" /\ ret.err = "LogClosed"
    /\ ret.tx \notin DOMAIN transactions
    /\ Len(ret.ents) > 0

\* C11: whenever no CommitTransaction is between its locked sections, every
\* transaction in the table is Pending: one that became Aborted or Committed
\* has been removed.
C11_OnlyPendingAtRest ==
    commits = <<>> => \A id \in DOMAIN transactions : transactions[id].State = "Pending"

\* C12: AddToTransaction returns TransactionNotFound for an id not in the
\* table, else TransactionNotPending for a transaction that is not Pending,
\* else TransactionExpired for one whose timeout has elapsed, else
\* TransactionTooLarge for one with MaxEntries staged entries; in these cases
\* the staged list is unchanged, otherwise the entry is staged last.  No
\* transaction ever has more than MaxEntries staged entries.
C12_AddChecks ==
    /\ [](\A id \in DOMAIN transactions : Len(transactions[id].Entries) <= MaxEntries)
    /\ [][\A id \in TxIds : \A e \in EntryInputs : AddToTransaction(id, e) =>
             LET err == IF id \notin DOMAIN transactions THEN "TransactionNotFound"
                        ELSE IF transactions[id].State # "Pending"
                        THEN "TransactionNotPending"
                        ELSE IF TimedOut(transactions[id], now) THEN "TransactionExpired"
                        ELSE IF Len(transactions[id].Entries) >= MaxEntries
                        THEN "TransactionTooLarge"
                        ELSE "nil"
             IN /\ ret'.op = "AddToTransaction" /\ ret'.err = err
                /\ DOMAIN transactions' = DOMAIN transactions
                /\ \A x \in DOMAIN transactions :
                      transactions'[x].Entries =
                          IF x = id /\ err = "nil"
                          THEN Append(transactions[x].Entries, [e EXCEPT !.TransactionID = id])
                          ELSE transactions[x].Entries]_vars

\* an entry refused by a transaction that holds MaxEntries entries
C12_Witness ==
    /\ ret.op = "AddToTransaction" /\ ret.err = "TransactionTooLarge"
    /\ ret.tx \in DOMAIN transactions
    /\ Len(transactions[ret.tx].Entries) = MaxEntries

\* C13: a transaction the sweep removed is in no commit and none of its
\* entries is ever stored in the log; a transaction whose commit is between
\* its locked sections is in the table as Committed, and the sweep leaves it.
C13_SweepOrCommit ==
    /\ [](\A id \in swept :
             /\ id \notin DOMAIN transactions
             /\ id \notin DOMAIN commits
             /\ TxRecords(id) = 0)
    /\ [](\A id \in DOMAIN commits :
             id \in DOMAIN transactions /\ transactions[id].State = "Committed")
    /\ [][CleanupExpiredTransactions =>
             \A id \in DOMAIN commits :
                id \notin swept' /\ transactions'[id] = transactions[id]]_vars

\* a commit refused for a transaction the sweep removed, next to the stored
\* records of a commit that went through
C13_Witness ==
    /\ ret.op = "CommitTransaction" /\ ret.err = "TransactionNotFound"
    /\ ret.tx \in swept
    /\ \E id \in TxIds \ swept : TxRecords(id) > 0

\* C14: after a successful Append of e that returned index i, Get(i) succeeds
\* and returns the record with index i and the payload and timestamp of e.
C14_AppendGet ==
    (ret.op = "Append" /\ ret.err = "nil") =>
        LET i == ret.val[1]
            e == ret.ents[1]
        IN Get(Log, i) = [err |-> "nil",
                          entry |-> Entry(i, e.Data, e.Timestamp, e.TransactionID)]

\* C15: after Truncate(i) with FirstIndex <= i <= LastIndex, Get(j) gives
\* IndexOutOfRange for every j in i+1 .. the LastIndex before the call; and an
\* Append of e that follows the Truncate succeeds, returns i + 1, and Get(i + 1)
\* returns e.
C15_TruncateAppend ==
    /\ []((/\ ret.op = "Truncate" /\ ret.err = "nil"
           /\ cusror.FirstIndex <= ret.k /\ ret.k <= ret.pre) =>
             \A j \in (ret.k + 1)..ret.pre : Get(Log, j).err = "IndexOutOfRange")
    /\ [][(/\ ret.op = "Truncate" /\ ret.err = "nil"
           /\ cusror.FirstIndex <= ret.k /\ ret.k <= ret.pre
           /\ ret'.op = "Append") =>
             /\ ret'.err = "nil"
             /\ ret'.val = <<ret.k + 1>>
             /\ Get(Log', ret.k + 1) =
                   [err |-> "nil",
                    entry |-> [ret'.ents[1] EXCEPT !.Index = ret.k + 1]]]_vars

RECURSIVE ScanEnd(_, _)
ScanEnd(f, offset) ==
    LET r == ReadAt(NewSegment(0), f, offset)
    IN IF r.err # "nil" \/ ~DecodeOk(r.data) THEN offset ELSE ScanEnd(f, r.next)

\* C17: after the recovery of a directory whose last segment file ends in an
\* incomplete frame, every whole record is readable, LastIndex is the index
\* of the last whole record, and every segment file ends at the end offset of
\* its last whole record.
C17_TrailingFrame ==
    (ret.op = "Open" /\ recoveries > 0) =>
        /\ cusror.LastIndex = IF StoredRecords = <<>> THEN 0
                               ELSE Last(StoredRecords).Index
        /\ \A k \in DOMAIN StoredRecords :
              Get(Log, StoredRecords[k].Index) = [err |-> "nil", entry |-> StoredRecords[k]]
        /\ \A x \in DOMAIN files : Len(files[x]) = ScanEnd(files[x], 0)

\* the scan of file f from offset meets a frame that is whole and does not
\* decode, or a read error that is not the end of the file
RECURSIVE CorruptAt(_, _)
CorruptAt(f, offset) ==
    LET r == ReadAt(NewSegment(0), f, offset)
    IN IF r.err = "EOF" THEN FALSE
       ELSE IF r.err # "nil" \/ ~DecodeOk(r.data) THEN TRUE
       ELSE CorruptAt(f, r.next)

\* C18: the reopening of a directory succeeds, and it leaves the status OK
\* exactly when the scan of no segment file met a corrupted frame, Corrupted
\* otherwise.
C18_StatusCorrupted ==
    [][Open =>
          /\ state' = "Open"
          /\ status' = IF \E x \in DOMAIN files : CorruptAt(files[x], 0)
                        THEN "Corrupted" ELSE "OK"]_vars

\* C19: when the scan of a segment file that is not the last one meets a
\* corrupted frame, the reopening reports an error and no record of a later
\* segment is tracked.
C19_StopsAtCorruption ==
    [][Open =>
          \A x \in DOMAIN files :
             (CorruptAt(files[x], 0) /\ \E y \in DOMAIN files : y > x) =>
                /\ ret'.err # "nil"
                /\ \A y \in DOMAIN files : y > x => segs'[y].entryOffsets = <<>>]_vars

\* C20: LastIndex becomes smaller only in a step of Truncate; the steps of
\* Append, of the WriteBatch of a commit, of the transaction calls, of Get,
\* GetRange and the sweep leave it as it was or greater, whatever they return.
C20_LastIndexMonotone ==
    [][cusror'.LastIndex < cusror.LastIndex => truncs' = truncs + 1]_vars

\* the sweep removed a transaction on a log of MaxIndex records on which
\* Truncate was called
C20_Witness ==
    /\ ret.op = "CleanupExpiredTransactions" /\ ret.k > 0
    /\ truncs > 0
    /\ cusror.LastIndex = MaxIndex

\* C21: when Close has returned and the log is Closed, no transaction of the
\* table is Pending: Close aborted them all
C21_ClosedNoPending ==
    (state = "Closed" /\ ret.op = "Close") =>
        \A id \in DOMAIN transactions : transactions[id].State # "Pending"

\* the calls that return LogClosed on a closed log
ClosedCalls == {"Append", "WriteBatch", "Get", "GetRange", "Truncate", "BeginTransaction"}

C23_SegmentSize ==
    \A x \in DOMAIN files :
        Len(files[x]) <= segmentSize \/ Len(StoredIn(files[x], 0)) <= 1

\* a step of the open log that rotated: it has a new current segment
Rotated ==
    /\ state = "Open"
    /\ currentSegment' # NilSegment
    /\ currentSegment' # currentSegment

\* the segments a step dropped from the list
Evicted == Range(segments) \ Range(segments')

\* the indices of the records the segments in xs hold
IndicesOf(xs) ==
    {i \in 1..MaxIndex : \E x \in xs : segs[x].firstEntry # 0 /\ segs[x].firstEntry <= i
                                       /\ i <= segs[x].lastEntry}

NonEmpty == SelectSeq(segments, LAMBDA x : segs[x].firstEntry # 0)

\* C25: in an open log with segments the list is strictly increasing in
\* segment index, each segment with records starts one past the end of the one
\* with records before it, and the current segment is the last of the list
C25_SegmentList ==
    (state = "Open" /\ segments # <<>>) =>
        /\ \A i \in 1..(Len(segments) - 1) : segments[i] < segments[i + 1]
        /\ \A i \in 1..(Len(NonEmpty) - 1) :
              /\ segs[NonEmpty[i]].firstEntry <= segs[NonEmpty[i]].lastEntry
              /\ segs[NonEmpty[i + 1]].firstEntry = segs[NonEmpty[i]].lastEntry + 1
        /\ currentSegment = Last(segments)

\* the indices from lo to hi in ascending order
Upto(lo, hi) == [k \in 1..(IF hi < lo THEN 0 ELSE hi - lo + 1) |-> lo + k - 1]

\* the live indices of [start, end]: those from FirstIndex to LastIndex
LiveIn(start, end) ==
    IF cusror.LastIndex = 0 THEN <<>>
    ELSE Upto(Max(start, cusror.FirstIndex),
              IF end < cusror.LastIndex THEN end ELSE cusror.LastIndex)

\* the records Get returns for the live indices of [start, end], in their order
LiveRecords(start, end) ==
    LET got == SelectSeq([k \in DOMAIN LiveIn(start, end) |-> Get(Log, LiveIn(start, end)[k])],
                         LAMBDA r : r.err = "nil")
    IN [k \in DOMAIN got |-> got[k].entry]

\* C26: on an open log GetRange(start, end) fails when start > end, and
\* otherwise returns exactly the live records of [start, end]: those with an
\* index from FirstIndex to LastIndex, in ascending order
C26_GetRange ==
    state = "Open" =>
        \A start, end \in 0..(MaxIndex + 1) :
            IF start > end THEN GetRange(Log, start, end).err # "nil"
            ELSE /\ GetRange(Log, start, end).err = "nil"
                 /\ GetRange(Log, start, end).entries = LiveRecords(start, end)

\* Get of index gives IndexOutOfRange
OutOfRange(index) == Get(Log, index).err = "IndexOutOfRange"

\* Get of index gives the record stored under index
InRange(index) == Get(Log, index).err = "nil" /\ Get(Log, index).entry.Index = index

\* C27: on an open log Get gives IndexOutOfRange for every index below
\* FirstIndex or above LastIndex, and for every index from FirstIndex to
\* LastIndex the record with that index (the indices are those from 1 on)
C27_Get ==
    state = "Open" =>
        \A index \in 1..(MaxIndex + 1) :
            IF index < cusror.FirstIndex \/ index > cusror.LastIndex THEN OutOfRange(index)
            ELSE InRange(index)

\* thread t waits for a lock that thread u holds
WaitsFor(t, u) ==
    /\ calls[t].at < Len(calls[t].path)
    /\ LET s == calls[t].path[calls[t].at + 1]
       IN /\ s.kind \in {"Lock", "RLock"}
          /\ ~CanTake(calls, s)
          /\ LastOn(calls[u], s.lock) \in {"Lock", "RLock"}

\* C28: no two calls wait for a lock the other holds, no call waits for a lock
\* it holds itself, and every call that has begun returns
C28_NoDeadlock ==
    /\ [](\A t, u \in Threads : ~(WaitsFor(t, u) /\ WaitsFor(u, t)))
    /\ \A t \in Threads : (calls[t].op # "none") ~> (calls[t].op = "none")

\* Close holds the log lock and waits for the lock of the table, which a
\* CommitTransaction holds that will next take the log lock
C28_Witness ==
    \E t, u \in Threads :
        /\ calls[t].op = "Close" /\ calls[t].path = CloseLocks /\ calls[t].at = 1
        /\ calls[u].op = "CommitTransaction" /\ calls[u].path = CommitLocks /\ calls[u].at = 1

\* the transactions of the table that are Pending and whose timeout has elapsed
ExpiredPending ==
    {id \in DOMAIN transactions :
        transactions[id].State = "Pending" /\ TimedOut(transactions[id], now)}

\* C29: the sweep removes the Pending transactions whose timeout has elapsed
\* and no other, leaves the others as they are, leaves the cursor, the
\* segments and the files as they are, and takes no step on the log lock
C29_Sweep ==
    /\ [][CleanupExpiredTransactions =>
            /\ DOMAIN transactions' = DOMAIN transactions \ ExpiredPending
            /\ \A id \in DOMAIN transactions' : transactions'[id] = transactions[id]
            /\ UNCHANGED <<logVars, commits, state>>]_vars
    /\ [](\A path \in Paths("CleanupExpiredTransactions") :
             \A k \in DOMAIN path : path[k].lock # "mu")

\* the sweep has removed a transaction and left one that is marked Committed
\* and whose timeout has elapsed too
C29_Witness ==
    /\ ret.op = "CleanupExpiredTransactions"
    /\ ret.k > 0
    /\ \E id \in DOMAIN transactions :
          transactions[id].State = "Committed" /\ TimedOut(transactions[id], now)

\* the number of records of the files fs that carry transaction id
TxIn(fs, id) ==
    LET stored == StoredOf(fs, SortedSeq(DOMAIN fs))
    IN Cardinality({i \in DOMAIN stored : stored[i].TransactionID = id})

\* a step of BeginTransaction or AddToTransaction
StagingStep ==
    \/ \E t \in TimeoutInputs : BeginTransaction(t)
    \/ \E id \in TxIds : \E e \in EntryInputs : AddToTransaction(id, e)

\* C30: BeginTransaction and AddToTransaction leave the cursor, the segment
\* list, the segments' offsets and the files as they are; while a transaction
\* is Pending no stored record and no record GetRange returns carries its id;
\* and the records of a transaction come into the files only while its
\* CommitTransaction flushes, never by a crash or a recovery
C30_Staged ==
    /\ [][StagingStep => UNCHANGED logVars]_vars
    /\ [](\A id \in DOMAIN transactions :
             transactions[id].State = "Pending" =>
                /\ TxRecords(id) = 0
                /\ state = "Open" =>
                      \A k \in DOMAIN GetRange(Log, 0, MaxIndex).entries :
                         GetRange(Log, 0, MaxIndex).entries[k].TransactionID # id)
    /\ [][\A id \in TxIds :
             TxIn(files', id) > TxIn(files, id) =>
                id \in DOMAIN commits /\ commits[id].phase = "flush"]_vars

\* AddToTransaction has staged an entry of a transaction that is Pending, next
\* to the stored records of one that was committed before a crash and a reopening
C30_Witness ==
    /\ ret.op = "AddToTransaction"
    /\ ret.err = "nil"
    /\ transactions[ret.tx].State = "Pending"
    /\ recoveries > 0
    /\ \E id \in TxIds \ {ret.tx} : TxRecords(id) > 0

\* C31: Segment.Write puts the whole frame on the file or nothing: over a call
\* of Append, which does nothing to the file but this Write, every segment
\* file grows by the length prefix and the data together, or not at all
C31_AtomicWrite ==
    [][AppendStep =>
          \A x \in DOMAIN files' :
             SizeOf(files', x) - SizeOf(files, x) \in {0, Len(Frame(Encode(ret'.ents[1])))}]_vars

\* --------------------------------------------------- segment files that fail to open
\* loadSegments over the directory fs when openSegment fails on the files of
\* bad: at the first failure the segments opened so far are closed and the
\* result is nil with the error
loadSegmentsFrom(fs, bad) ==
    IF DOMAIN fs \cap bad # {} THEN [segments |-> <<>>, err |-> "IOFailure"]
    ELSE [segments |-> loadSegments(fs), err |-> "nil"]

\* WAL.recover when openSegment fails on the files of bad: the error of
\* loadSegments is returned before anything of the WAL is set
recoverFrom(fs, bad) ==
    IF loadSegmentsFrom(fs, bad).err # "nil"
    THEN [cusror |-> StartCursor, segments |-> <<>>, currentSegment |-> NilSegment,
          segs |-> [x \in DOMAIN fs |-> [NewSegment(x) EXCEPT !.open = FALSE]], files |-> fs,
          err |-> loadSegmentsFrom(fs, bad).err]
    ELSE recover(fs)

\* Open when openSegment fails on the files of bad
OpenFrom(bad) ==
    /\ state \in {"Closed", "Crashed"}
    /\ ~closing
    /\ commits = <<>>
    /\ recoveries < MaxRecoveries
    /\ recoveries' = recoveries + 1
    /\ SetLog(recoverFrom(files, bad))
    /\ state' = IF recoverFrom(files, bad).err = "nil" THEN "Open" ELSE state
    /\ status' = IF loadSegmentsFrom(files, bad).err # "nil" THEN status
                  ELSE recoverStatus(recover(files))
    /\ transactions' = <<>>
    /\ commits' = <<>>
    /\ ret' = Ret("Open", ret.tx, recoverFrom(files, bad).err, <<>>, ret.pre, ret.k, <<>>)
    /\ UNCHANGED <<nextTx, now, closing, faults, truncs, lastAppended, elapsed, swept, atClose, calls, sweeper>>

\* the writers without I/O failure, Close, and the reopening of a directory
\* in which some files fail to open
NextLoad ==
    \/ \E e \in EntryInputs : WAL_Append(e, NoFault)
    \/ \E es \in Batches : WriteBatch(es, NoFault)
    \/ NextClose
    \/ \E bad \in SUBSET DOMAIN files : OpenFrom(bad)

SpecLoad == Init /\ [][NextLoad]_vars

\* C32: a segment file that fails to open does not keep the others from being
\* loaded: after the open, the list holds the files that opened, in name order
C32_LoadOthers ==
    [][\A bad \in SUBSET DOMAIN files :
          OpenFrom(bad) => segments' = SortedSeq(DOMAIN files \ bad)]_vars

\* a call Truncate(i) on an open log with FirstIndex <= i <= LastIndex
TruncateInRange(i) ==
    /\ Truncate(i)
    /\ state = "Open"
    /\ cusror.FirstIndex >= 1 /\ cusror.FirstIndex <= i /\ i <= cusror.LastIndex

\* the end of the frame of record i in segment x of the log w
FrameEnd(w, x, i) ==
    GetEntryByIndex(w.segs[x], FileOf(w, x), i).next

\* C33: after Truncate(i) with FirstIndex <= i <= LastIndex, LastIndex is i,
\* every segment that started after i is closed and off the list (its file
\* removed), the segment that holds i ends right after record i in its last
\* index, its offsets and its file size, and every record that Get returned
\* for an index from FirstIndex to i is returned by Get as before
C33_Truncate ==
    [][\A i \in 0..MaxIndex : TruncateInRange(i) =>
          /\ state' = "Open"
          /\ cusror'.LastIndex = i
          /\ cusror'.FirstIndex = cusror.FirstIndex
          /\ \A x \in Range(segments) :
                segs[x].firstEntry > i =>
                   /\ x \notin Range(segments')
                   /\ ~segs'[x].open
                   /\ x \notin DOMAIN files'
          /\ \A x \in Range(segments) :
                ContainsIndex(segs[x], i) =>
                   /\ x \in Range(segments')
                   /\ segs'[x].lastEntry = i
                   /\ Len(segs'[x].entryOffsets) = i - segs'[x].firstEntry + 1
                   /\ SizeOf(files', x) = FrameEnd(Log, x, i)
          /\ \A j \in cusror.FirstIndex..i :
                Get(Log, j).err = "nil" => Get(Log', j) = Get(Log, j)]_vars

\* WriteBatch with its I/O failures, Append without, and Truncate
NextCut ==
    \/ \E es \in Batches : \E f \in BatchFaults(es) : WriteBatch(es, f)
    \/ \E e \in EntryInputs : WAL_Append(e, NoFault)
    \/ \E i \in 0..MaxIndex : Truncate(i)

SpecCut == Init /\ [][NextCut]_vars

\* the offsets of the whole frames a scan of file f from offset finds
RECURSIVE FrameOffsets(_, _)
FrameOffsets(f, offset) ==
    LET r == ReadAt(NewSegment(0), f, offset)
    IN IF r.err # "nil" \/ ~DecodeOk(r.data) THEN <<>>
       ELSE <<offset>> \o FrameOffsets(f, r.next)

\* the record at the k-th tracked offset of segment x carries the index the
\* offset is tracked for
TrackedAt(x, k) ==
    LET r == ReadAt(segs[x], FileOf(Log, x), segs[x].entryOffsets[k])
    IN /\ r.err = "nil"
       /\ DecodeOk(r.data)
       /\ Decode(r.data).Index = segs[x].firstEntry + k - 1

\* C34: after the reopening of a directory, FirstIndex is the index of the
\* first stored record and LastIndex that of the last one, every segment
\* tracks the offset of each whole frame of its file under the index of the
\* record in it, and the recovery of the directory as it is gives this very
\* cursor, segment list and offset index again
C34_Rebuilt ==
    (ret.op = "Open" /\ ret.err = "nil" /\ recoveries > 0 /\ state = "Open") =>
        /\ cusror.FirstIndex = (IF StoredRecords = <<>> THEN 0 ELSE StoredRecords[1].Index)
        /\ cusror.LastIndex = (IF StoredRecords = <<>> THEN 0 ELSE Last(StoredRecords).Index)
        /\ \A x \in DOMAIN files :
              /\ segs[x].entryOffsets = FrameOffsets(files[x], 0)
              /\ \A k \in DOMAIN segs[x].entryOffsets : TrackedAt(x, k)
        /\ recover(files).cusror = cusror
        /\ recover(files).segments = segments
        /\ recover(files).segs = segs
        /\ recover(files).files = files

\* C35: in an open log every tracked offset of every listed segment points at
\* a whole frame inside the file as it is, and the frame holds the record with
\* the index the offset is tracked for; a cut of the file leaves no offset
\* behind that points into what was cut
C35_TrackedFrames ==
    state = "Open" =>
        \A x \in Range(segments) : \A k \in DOMAIN segs[x].entryOffsets : TrackedAt(x, k)

\* C36: Truncate never makes LastIndex greater and never puts it below
\* FirstIndex - 1; called with an index above LastIndex it leaves the cursor,
\* the segments and the files as they are
C36_TruncateBounds ==
    [][\A i \in 0..MaxIndex : (Truncate(i) /\ state = "Open") =>
          /\ cusror'.LastIndex <= cusror.LastIndex
          /\ cusror'.LastIndex + 1 >= cusror'.FirstIndex
          /\ i > cusror.LastIndex => UNCHANGED logVars]_vars

\* C37: a BeginTransaction that runs after Close has aborted the pending
\* transactions returns LogClosed and adds nothing to the table, so that the
\* table holds no Pending transaction when Close returns
C37_CloseBegin ==
    [][/\ \A t \in TimeoutInputs :
             (BeginTransaction(t) /\ closing) =>
                 ret'.err = "LogClosed" /\ transactions' = transactions
       /\ CloseFinish =>
             \A id \in DOMAIN transactions' : transactions'[id].State # "Pending"]_vars

\* a call of AddToTransaction, RollbackTransaction or CommitTransaction on id
CallOn(id) ==
    \/ \E e \in EntryInputs : AddToTransaction(id, e)
    \/ RollbackTransaction(id)
    \/ CommitTransaction(id)

\* C38: while the CommitTransaction of id is between its two locked sections,
\* AddToTransaction, RollbackTransaction and CommitTransaction on id return
\* TransactionNotPending and leave the table, the entries being written, the
\* result of the commit and the log as they are; the records of id come into
\* the files in the one WriteBatch of the commit, not more of them than were staged
C38_Flushing ==
    [][\A id \in TxIds :
          /\ (id \in DOMAIN commits /\ CallOn(id)) =>
                /\ ret'.err = "TransactionNotPending"
                /\ UNCHANGED <<transactions, commits, logVars>>
          /\ TxIn(files', id) > TxIn(files, id) =>
                /\ id \in DOMAIN commits
                /\ commits[id].phase = "flush" /\ commits'[id].phase = "remove"
                /\ TxIn(files, id) = 0
                /\ TxIn(files', id) <= Len(commits[id].entries)]_vars

\* RollbackTransaction was refused on a transaction whose commit had written
\* its two records and had not yet removed it from the table
C38_Witness ==
    /\ ret.op = "RollbackTransaction"
    /\ ret.err = "TransactionNotPending"
    /\ ret.tx \in DOMAIN commits
    /\ commits[ret.tx].phase = "remove"
    /\ commits[ret.tx].res.err = "nil"
    /\ TxRecords(ret.tx) = 2

\* ------------------------------------------------- the background sweep
\* StartTransactionCleanup: the goroutine is started and waits for its ticker
StartTransactionCleanup ==
    /\ Running
    /\ sweeper = "off"
    /\ sweeper' = "waiting"
    /\ UNCHANGED <<state, status, logVars, txVars, now, recoveries, closing, faults, truncs,
                   lastAppended, elapsed, swept, atClose, calls, ret>>

\* what the goroutine's read of w.state can give: it takes no lock, so next to
\* the value Close has stored it can still see the one from before
StateSeen == IF state = "Closed" THEN {"Closed", "Open"} ELSE {state}

\* the ticker fires: the goroutine reads w.state and returns when it sees Closed
SweepTick(seen) ==
    /\ Running
    /\ sweeper = "waiting"
    /\ seen \in StateSeen
    /\ sweeper' = IF seen = "Closed" THEN "stopped" ELSE "sweeping"
    /\ UNCHANGED <<state, status, logVars, txVars, now, recoveries, closing, faults, truncs,
                   lastAppended, elapsed, swept, atClose, calls, ret>>

\* the goroutine's call of CleanupExpiredTransactions after that read
SweepRun ==
    /\ Running
    /\ sweeper = "sweeping"
    /\ sweeper' = "waiting"
    /\ transactions' = CleanupExpired(transactions, now)
    /\ swept' = swept \cup (DOMAIN transactions \ DOMAIN transactions')
    /\ ret' = Ret("CleanupExpiredTransactions", NoTx, "nil", <<>>, cusror.LastIndex,
                  Cardinality(DOMAIN transactions \ DOMAIN transactions'), <<>>)
    /\ UNCHANGED <<logVars, state, status, commits, nextTx, now, recoveries, closing, faults,
                   truncs, lastAppended, elapsed, atClose, calls>>

\* transactions begun and staged, the clock, Close, and the background sweep
NextSweep ==
    \/ \E t \in TimeoutInputs : BeginTransaction(t)
    \/ \E id \in TxIds : \E e \in EntryInputs : AddToTransaction(id, e)
    \/ Tick
    \/ NextClose
    \/ StartTransactionCleanup
    \/ \E seen \in {"Open", "Closed"} : SweepTick(seen)
    \/ SweepRun

SpecSweep == Init /\ [][NextSweep]_vars

\* the ticker keeps firing and the goroutine keeps running
SpecSweepFair ==
    /\ SpecSweep
    /\ WF_vars(\E seen \in {"Open", "Closed"} : SweepTick(seen))
    /\ WF_vars(SweepRun)

\* C39: once the log is Closed the background sweep changes the transaction
\* table no more
C39_SweepClosed ==
    [][(SweepRun /\ state = "Closed") => transactions' = transactions]_vars

\* after Close has returned the background sweep stops
C39_SweepStops ==
    (state = "Closed" /\ sweeper # "off") ~> (sweeper = "stopped")

====
